---- MODULE Spec2Model ----
(***************************************************************************)
(* Ride request / driver assignment of express-basic-structure.           *)
(*                                                                         *)
(* The repository holds three implementations of the ride state machine:  *)
(*                                                                         *)
(*   Mongo : services/rideService.js (src/unnamed/part_000): rides in     *)
(*           MongoDB, idempotency keys and per-ride accept locks in Redis *)
(*           (createRide, acceptRide, IDEM_SCRIPT, LOCK_SCRIPT).          *)
(*   Lua   : the Redis hash ride:{rideId} with Lua scripts and the expiry *)
(*           worker (src/Ride-create-assign-1.md, copied in part in       *)
(*           src/kafka/kafka.utils.ts).                                   *)
(*   Hash  : the Redis hashes ride:{id} / driver:{id} of                  *)
(*           src/Ride-create-assign-3.md.                                 *)
(*                                                                         *)
(* and, beside them, the driver index with minute buckets                 *)
(* (src/kafka/kafka.utils.ts), the driver GEO service                     *)
(* (src/unnamed/part_006), the runners of registered Lua scripts          *)
(* (src/unnamed/part_002, part_000, kafka.utils.ts), the Kafka utilities  *)
(* publishEvent / subscribeEvent (src/kafka/kafka.utils.ts) and the       *)
(* clients of the Redis service (src/unnamed/part_002).                   *)
(*                                                                         *)
(* Each has its own variables and its own specifications; a specification *)
(* leaves the variables of the others unchanged.                          *)
(***************************************************************************)
EXTENDS Integers, Sequences, FiniteSets, TLC

\* ------------------------------------------------------------------ bounds
NumDrivers == 2          \* driver ids 1..NumDrivers
MaxCreateCalls == 2      \* createRide calls (Mongo), one ObjectId each
NumIdemKeys == 2         \* idempotency keys 1..NumIdemKeys
MaxAcceptCalls == 3      \* acceptRide calls started in one run (Mongo)
NumRides == 2            \* ride ids 1..NumRides (Lua)
MaxRequests == 4         \* client requests that change the store in one run (Lua)
NumInstants == 2         \* values Date.now() takes in one run (Hash)
NumPassengers == 2       \* passengers who create rides (Hash)
MaxLat == 1              \* latitudes of the scaled world: valid in -MaxLat..MaxLat
MaxMinutes == 2          \* minutes the clock of the driver index runs (Index)
MaxRadius == 2           \* search radii 0..MaxRadius, in latitudes (Geo)
MaxScriptCalls == 3      \* calls of a script runner in one run (Scripts)
NumPublishers == 2       \* concurrent callers of publishEvent (Kafka)
BatchSize == 2           \* messages of one publishEvent batch (Kafka)
NumMessages == 2         \* messages waiting in the consumed topic (Kafka)
MaxMillis == 3           \* Date.now() takes the values 0..MaxMillis (Kafka)
NumInitCallers == 3      \* concurrent callers of initClient / initSubscriber (Redis service)

Drivers == 1..NumDrivers
NoDriver == 0            \* no driver / empty string / null
NoRide == 0              \* no ride id / null

(***************************************************************************)
(*                     Mongo implementation (part_000)                     *)
(***************************************************************************)
CreateCalls == 1..MaxCreateCalls
\* new mongoose.Types.ObjectId(): unique per call; call c generates id c
ObjectIds == CreateCalls
\* a ride id no createRide ever generates (AcceptRide on an unknown ride)
UnknownRide == 0
IdemKeys == 1..NumIdemKeys

VARIABLES
  mongo,     \* Ride collection: ObjectIds -> document ("none": no document)
  idem,      \* Redis idem:ride:{idemKey} -> reserved rideId (NoRide: no key)
  rlock,     \* Redis lock:ride:{rideId} -> driverId (NoDriver: no key)
  rttl,      \* Redis lock:ride:{rideId} has a time to live
  cpc,       \* createRide call -> "idle" | "find" | "persist" | "rollback" | "done"
  ckey,      \* createRide call -> its idemKey
  cval,      \* createRide call -> idemVal returned by IDEM_SCRIPT
  cres,      \* createRide call -> "none" | "ride" | "pending" (ride: null, 202)
             \*   | "error" (store failure thrown) | "dupkey" (E11000 thrown)
  cret,      \* createRide call -> rideId returned to the caller (NoRide: none)
  apc,       \* acceptRide call of a driver -> "idle" | "update" | "done"
  arid,      \* acceptRide call -> rideId
  ares,      \* acceptRide call -> "none" | "ok" | "locked" | "notfound"
  nacc,      \* acceptRide calls started so far
  winners    \* history: rideId -> drivers whose acceptRide returned the ride

varsMongo == <<mongo, idem, rlock, rttl, cpc, ckey, cval, cres, cret, apc, arid, ares, nacc, winners>>

\* acceptedAt: new Date(), a later instant at every write of the field: the
\* instants one document takes are numbered 1, 2, ... (0: not set)
NoDoc == [status |-> "none", driverId |-> NoDriver, idemKey |-> 0, acceptedAt |-> 0]

InitMongo ==
  /\ mongo = [r \in ObjectIds |-> NoDoc]
  /\ idem = [k \in IdemKeys |-> NoRide]
  /\ rlock = [r \in ObjectIds \cup {UnknownRide} |-> NoDriver]
  /\ rttl = [r \in ObjectIds \cup {UnknownRide} |-> FALSE]
  /\ cpc = [c \in CreateCalls |-> "idle"]
  /\ ckey = [c \in CreateCalls |-> 0]
  /\ cval = [c \in CreateCalls |-> NoRide]
  /\ cres = [c \in CreateCalls |-> "none"]
  /\ cret = [c \in CreateCalls |-> NoRide]
  /\ apc = [d \in Drivers |-> "idle"]
  /\ arid = [d \in Drivers |-> NoRide]
  /\ ares = [d \in Drivers |-> "none"]
  /\ nacc = 0
  /\ winners = [r \in ObjectIds \cup {UnknownRide} |-> {}]

\* IDEM_SCRIPT: GET; if set return it, else SET .. EX .. NX and return ARGV[1]
IdemScriptReturn(k, rideId) == IF idem[k] # NoRide THEN idem[k] ELSE rideId
IdemScriptStore(k, rideId) ==
  IF idem[k] # NoRide THEN idem ELSE [idem EXCEPT ![k] = rideId]

\* idemKey: { unique: true, sparse: true }: Ride.create rejects a second
\* document with the same idemKey (E11000)
DuplicateKeyErrorNoIndex(k) == FALSE
DuplicateKeyError(k) == \E r \in ObjectIds : mongo[r].status # "none" /\ mongo[r].idemKey = k

\* createRide up to and including the safeEval of IDEM_SCRIPT
CreateReserve(c, k) ==
  /\ cpc[c] = "idle"
  /\ LET idemVal == IdemScriptReturn(k, c) IN
       /\ idem' = IdemScriptStore(k, c)
       /\ ckey' = [ckey EXCEPT ![c] = k]
       /\ cval' = [cval EXCEPT ![c] = idemVal]
       /\ cpc' = [cpc EXCEPT ![c] = IF idemVal # c THEN "find" ELSE "persist"]
  /\ UNCHANGED <<mongo, rlock, rttl, cres, cret, apc, arid, ares, nacc, winners>>

\* duplicate: Ride.findById(idemVal).lean(), null while the first call inserts
CreateFind(c) ==
  /\ cpc[c] = "find"
  /\ IF mongo[cval[c]].status # "none"
       THEN /\ cres' = [cres EXCEPT ![c] = "ride"]
            /\ cret' = [cret EXCEPT ![c] = cval[c]]
       ELSE /\ cres' = [cres EXCEPT ![c] = "pending"]
            /\ cret' = cret
  /\ cpc' = [cpc EXCEPT ![c] = "done"]
  /\ UNCHANGED <<mongo, idem, rlock, rttl, ckey, cval, apc, arid, ares, nacc, winners>>

\* first time: Ride.create succeeds, or throws on the unique index
CreatePersist(c) ==
  /\ cpc[c] = "persist"
  /\ IF DuplicateKeyError(ckey[c])
       THEN /\ cpc' = [cpc EXCEPT ![c] = "rollback"]
            /\ cres' = [cres EXCEPT ![c] = "dupkey"]
            /\ UNCHANGED <<mongo, cret>>
       ELSE /\ mongo' = [mongo EXCEPT ![c] =
                 [status |-> "requested", driverId |-> NoDriver, idemKey |-> ckey[c],
                  acceptedAt |-> 0]]
            /\ cres' = [cres EXCEPT ![c] = "ride"]
            /\ cret' = [cret EXCEPT ![c] = c]
            /\ cpc' = [cpc EXCEPT ![c] = "done"]
  /\ UNCHANGED <<idem, rlock, rttl, ckey, cval, apc, arid, ares, nacc, winners>>

\* Ride.create throws for another reason (the store is unavailable)
CreatePersistFails(c) ==
  /\ cpc[c] = "persist"
  /\ cpc' = [cpc EXCEPT ![c] = "rollback"]
  /\ cres' = [cres EXCEPT ![c] = "error"]
  /\ UNCHANGED <<mongo, idem, rlock, rttl, ckey, cval, cret, apc, arid, ares, nacc, winners>>

\* catch: redis.del(key); throw e
CreateRollback(c) ==
  /\ cpc[c] = "rollback"
  /\ idem' = [idem EXCEPT ![ckey[c]] = NoRide]
  /\ cpc' = [cpc EXCEPT ![c] = "done"]
  /\ UNCHANGED <<mongo, rlock, rttl, ckey, cval, cres, cret, apc, arid, ares, nacc, winners>>

\* the reservation's TTL (EX 900) runs out
IdemExpire(k) ==
  /\ idem[k] # NoRide
  /\ idem' = [idem EXCEPT ![k] = NoRide]
  /\ UNCHANGED <<mongo, rlock, rttl, cpc, ckey, cval, cres, cret, apc, arid, ares, nacc, winners>>

\* Ride.findOneAndUpdate filter { _id: rideId, status: "requested" }
AcceptFilterIdOnly(r) == r \in ObjectIds /\ mongo[r].status # "none"
AcceptFilter(r) == r \in ObjectIds /\ mongo[r].status = "requested"

\* ride ids a driver can have been told: persisted rides, or an unknown id
KnownRides == {r \in ObjectIds : mongo[r].status # "none"} \cup {UnknownRide}

\* the key as it is, were the PEXPIRE of LOCK_SCRIPT absent
NoPexpire(r) == rttl

\* LOCK_SCRIPT: redis.call('PEXPIRE', KEYS[1], ARGV[2]), with ARGV[2] = 15000
PEXPIRE(r) == [rttl EXCEPT ![r] = TRUE]

\* acceptRide up to and including the safeEval of LOCK_SCRIPT: the script
\* runs as one step, SETNX and, when it set the key, PEXPIRE
AcceptLock(d, r) ==
  /\ apc[d] = "idle"
  /\ r \in KnownRides
  /\ nacc < MaxAcceptCalls
  /\ nacc' = nacc + 1
  /\ arid' = [arid EXCEPT ![d] = r]
  /\ IF rlock[r] = NoDriver
       THEN /\ rlock' = [rlock EXCEPT ![r] = d]
            /\ rttl' = PEXPIRE(r)
            /\ apc' = [apc EXCEPT ![d] = "update"]
            /\ ares' = [ares EXCEPT ![d] = "none"]
       ELSE /\ rlock' = rlock
            /\ rttl' = rttl
            /\ apc' = [apc EXCEPT ![d] = "done"]
            /\ ares' = [ares EXCEPT ![d] = "locked"]
  /\ UNCHANGED <<mongo, idem, cpc, ckey, cval, cres, cret, winners>>

\* Finalize in Mongo (first-accept-wins)
AcceptUpdate(d) ==
  /\ apc[d] = "update"
  /\ IF AcceptFilter(arid[d])
       THEN /\ mongo' = [mongo EXCEPT ![arid[d]].status = "accepted",
                                      ![arid[d]].driverId = d,
                                      ![arid[d]].acceptedAt = @ + 1]
            /\ ares' = [ares EXCEPT ![d] = "ok"]
            /\ winners' = [winners EXCEPT ![arid[d]] = @ \cup {d}]
       ELSE /\ ares' = [ares EXCEPT ![d] = "notfound"]
            /\ UNCHANGED <<mongo, winners>>
  /\ apc' = [apc EXCEPT ![d] = "done"]
  /\ UNCHANGED <<idem, rlock, rttl, cpc, ckey, cval, cres, cret, arid, nacc>>

\* the response is sent; the driver may call again
AcceptReturn(d) ==
  /\ apc[d] = "done"
  /\ apc' = [apc EXCEPT ![d] = "idle"]
  /\ ares' = [ares EXCEPT ![d] = "none"]
  /\ arid' = [arid EXCEPT ![d] = NoRide]
  /\ UNCHANGED <<mongo, idem, rlock, rttl, cpc, ckey, cval, cres, cret, nacc, winners>>

\* the accept lock's TTL (PEXPIRE 15000) runs out; a key with no time to
\* live stays
LockExpire(r) ==
  /\ rlock[r] # NoDriver
  /\ rttl[r]
  /\ rlock' = [rlock EXCEPT ![r] = NoDriver]
  /\ rttl' = [rttl EXCEPT ![r] = FALSE]
  /\ UNCHANGED <<mongo, idem, cpc, ckey, cval, cres, cret, apc, arid, ares, nacc, winners>>

\* the rides a run of createRide calls leaves behind: any set of requested
\* rides, each created without a client key (idemKey = crypto.randomUUID(),
\* written 0 here), the reservations since timed out
InitMongoAccept ==
  /\ mongo \in [ObjectIds -> {NoDoc} \cup
        {[status |-> "requested", driverId |-> NoDriver, idemKey |-> 0, acceptedAt |-> 0]}]
  /\ idem = [k \in IdemKeys |-> NoRide]
  /\ rlock = [r \in ObjectIds \cup {UnknownRide} |-> NoDriver]
  /\ rttl = [r \in ObjectIds \cup {UnknownRide} |-> FALSE]
  /\ cpc = [c \in CreateCalls |-> "done"]
  /\ ckey = [c \in CreateCalls |-> 0]
  /\ cval = [c \in CreateCalls |-> NoRide]
  /\ cres = [c \in CreateCalls |-> IF mongo[c].status = "none" THEN "error" ELSE "ride"]
  /\ cret = [c \in CreateCalls |-> IF mongo[c].status = "none" THEN NoRide ELSE c]
  /\ apc = [d \in Drivers |-> "idle"]
  /\ arid = [d \in Drivers |-> NoRide]
  /\ ares = [d \in Drivers |-> "none"]
  /\ nacc = 0
  /\ winners = [r \in ObjectIds \cup {UnknownRide} |-> {}]

(***************************************************************************)
(*        Lua implementation (Ride-create-assign-1.md, kafka.utils.ts)     *)
(*                                                                         *)
(* Time is counted in ticks of 60 s and kept relative to the clock: a key  *)
(* holds the ticks its TTL has left, a ride the ticks until its expireAt   *)
(* (0: expireAt <= Date.now()).  expireAt = Date.now() + 60000 and         *)
(* EXPIRE 60 are 1 tick, the driver lock's EX 180 is 3 ticks, the          *)
(* PEXPIRE 300000 of an assigned ride is 5 ticks.  A key is gone once the  *)
(* clock is past its deadline (Redis: now > when).                         *)
(***************************************************************************)
RideIds == 1..NumRides
NoTime == -1             \* no TTL / field not set

EXPIRE_AT_MS == 1        \* expireAt: Date.now() + 60000
RIDE_TTL == 1            \* redis.expire(`ride:${rideId}`, 60)
LOCK_TTL == 3            \* "EX", 180
ASSIGNED_TTL == 5        \* pexpire KEYS[1] 300000

VARIABLES
  ride,      \* ride:{rideId} hash: RideIds -> [key, status, assigned, expireAt, ttl]
  dlock,     \* driver:{driverId}:lock string: Drivers -> [ride, ttl]
  crpc,      \* POST /ride/create in flight: RideIds -> "idle" | "expire"
  wpc,       \* expireRides: "idle" | "scan" | "status" | "hset"
  wkeys,     \* expireRides: keys of redis.keys('ride:*') not yet visited
  wdue,      \* expireRides: the keys of wkeys whose expireAt, as stored when
             \*   the run took now = Date.now(), is <= that now
  wkey,      \* expireRides: the key being visited
  pend,      \* history: RideIds -> ticks until the expireAt of a created ride
             \*   that was since neither accepted, cancelled nor marked
             \*   expired (NoTime: no such ride)
  wowed,     \* history: the rides of pend already past expireAt when the
             \*   current or last run of expireRides started
  nops       \* client requests that changed the store so far

varsLua == <<ride, dlock, crpc, wpc, wkeys, wdue, wkey, pend, wowed, nops>>

NoKey == [key |-> FALSE, status |-> "nil", assigned |-> NoDriver,
          expireAt |-> NoTime, ttl |-> NoTime]
NoLock == [ride |-> NoRide, ttl |-> NoTime]

InitLua ==
  /\ ride = [r \in RideIds |-> NoKey]
  /\ dlock = [d \in Drivers |-> NoLock]
  /\ crpc = [r \in RideIds |-> "idle"]
  /\ wpc = "idle"
  /\ wkeys = {}
  /\ wdue = {}
  /\ wkey = NoRide
  /\ pend = [r \in RideIds |-> NoTime]
  /\ wowed = {}
  /\ nops = 0

\* one more client request changes the store
Request == nops < MaxRequests /\ nops' = nops + 1

\* POST /ride/create, first await: redis.hmset(status pending, assigned '',
\* assignedAt '', category '', expireAt) and hsetBuffer(meta); an existing
\* key keeps its TTL
CreateHmset(r) ==
  /\ crpc[r] = "idle"
  /\ Request
  /\ ride' = [ride EXCEPT ![r] = [key |-> TRUE, status |-> "pending",
                assigned |-> NoDriver, expireAt |-> EXPIRE_AT_MS,
                ttl |-> ride[r].ttl]]
  /\ crpc' = [crpc EXCEPT ![r] = "expire"]
  /\ pend' = [pend EXCEPT ![r] = EXPIRE_AT_MS]
  /\ wdue' = wdue \ {r}
  /\ wowed' = wowed \ {r}
  /\ UNCHANGED <<dlock, wpc, wkeys, wkey>>

\* POST /ride/create, last await: redis.expire(key, 60)
CreateExpire(r) ==
  /\ crpc[r] = "expire"
  /\ ride' = [ride EXCEPT ![r].ttl = IF ride[r].key THEN RIDE_TTL ELSE @]
  /\ crpc' = [crpc EXCEPT ![r] = "idle"]
  /\ UNCHANGED <<dlock, wpc, wkeys, wdue, wkey, pend, wowed, nops>>

\* acceptScript: if not status or status == "assigned" or status == "cancelled"
AcceptRejects(r) == ride[r].status \in {"nil", "assigned", "cancelled"}

\* acceptScript, the lock it writes: set driver:{id}:lock KEYS[1] EX 180
AcceptLockValue(r) == [ride |-> r, ttl |-> LOCK_TTL]

\* POST /ride/accept: the script runs atomically; a rejected call (return 0)
\* changes nothing
Accept(d, r) ==
  IF AcceptRejects(r)
    THEN UNCHANGED varsLua
    ELSE /\ Request
         /\ ride' = [ride EXCEPT ![r].status = "assigned",
                                 ![r].assigned = d,
                                 ![r].ttl = ASSIGNED_TTL]
         /\ dlock' = [dlock EXCEPT ![d] = AcceptLockValue(r)]
         /\ pend' = [pend EXCEPT ![r] = NoTime]
         /\ wowed' = wowed \ {r}
         /\ UNCHANGED <<crpc, wpc, wkeys, wdue, wkey>>

\* passengerCancelScript: same guard as acceptScript
PassengerCancelRejects(r) == ride[r].status \in {"nil", "assigned", "cancelled"}

\* POST /ride/passenger-cancel
PassengerCancel(r) ==
  IF PassengerCancelRejects(r)
    THEN UNCHANGED varsLua
    ELSE /\ Request
         /\ ride' = [ride EXCEPT ![r].status = "cancelled"]
         /\ pend' = [pend EXCEPT ![r] = NoTime]
         /\ wowed' = wowed \ {r}
         /\ UNCHANGED <<dlock, crpc, wpc, wkeys, wdue, wkey>>

\* driverCancelScript: if status ~= "assigned" or assignedDriver ~= ARGV[1]
DriverCancelRejects(d, r) == ride[r].status # "assigned" \/ ride[r].assigned # d

\* POST /ride/driver-cancel: del driver:{id}:lock, back to pending
DriverCancel(d, r) ==
  IF DriverCancelRejects(d, r)
    THEN UNCHANGED varsLua
    ELSE /\ Request
         /\ dlock' = [dlock EXCEPT ![d] = NoLock]
         /\ ride' = [ride EXCEPT ![r].status = "pending",
                                 ![r].assigned = NoDriver]
         /\ UNCHANGED <<crpc, wpc, wkeys, wdue, wkey, pend, wowed>>

\* expireRides: now = Date.now(); keys = await redis.keys('ride:*')
ExpireRidesStart ==
  /\ wpc = "idle"
  /\ wkeys' = {r \in RideIds : ride[r].key}
  /\ wdue' = {r \in RideIds : ride[r].key /\ ride[r].expireAt = 0}
  /\ wowed' = {r \in RideIds : pend[r] = 0}
  /\ wpc' = "scan"
  /\ wkey' = NoRide
  /\ UNCHANGED <<ride, dlock, crpc, pend, nops>>

\* expireRides: the loop is over
ExpireRidesEnd ==
  /\ wpc = "scan" /\ wkeys = {}
  /\ wpc' = "idle"
  /\ UNCHANGED <<ride, dlock, crpc, wkeys, wdue, wkey, pend, wowed, nops>>

\* expireRides: expireAt && +expireAt <= now, on the expireAt read now: it is
\* the one the run's now was compared with unless the key is gone (a create
\* since then stores a later expireAt and leaves wdue)
ExpireAtDue(r) == ride[r].expireAt # NoTime /\ r \in wdue

\* expireRides: the next key; expireAt = await redis.hget(key, 'expireAt').
\* When expireAt is not due the status read after it decides nothing.
ExpireRidesReadExpireAt(r) ==
  /\ wpc = "scan" /\ r \in wkeys
  /\ wkeys' = wkeys \ {r}
  /\ wdue' = wdue \ {r}
  /\ IF ExpireAtDue(r)
       THEN wpc' = "status" /\ wkey' = r
       ELSE wpc' = "scan" /\ wkey' = NoRide
  /\ UNCHANGED <<ride, dlock, crpc, pend, wowed, nops>>

\* expireRides: status = await redis.hget(key, 'status'); status === 'pending'
ExpireRidesReadStatus ==
  /\ wpc = "status"
  /\ IF ride[wkey].status = "pending"
       THEN wpc' = "hset" /\ wkey' = wkey
       ELSE wpc' = "scan" /\ wkey' = NoRide
  /\ UNCHANGED <<ride, dlock, crpc, wkeys, wdue, pend, wowed, nops>>

\* expireRides: the write, await redis.hset(key, 'status', 'expired'): a
\* plain HSET, which creates the hash when the key is gone
ExpireRidesWrite(r) == [ride EXCEPT ![r].key = TRUE, ![r].status = "expired"]

ExpireRidesHset ==
  /\ wpc = "hset"
  /\ ride' = ExpireRidesWrite(wkey)
  /\ pend' = [pend EXCEPT ![wkey] = NoTime]
  /\ wowed' = wowed \ {wkey}
  /\ wpc' = "scan"
  /\ wkey' = NoRide
  /\ UNCHANGED <<dlock, crpc, wkeys, wdue, nops>>

\* one tick less on a time that is set and not yet 0
Elapse(t) == IF t = NoTime \/ t = 0 THEN t ELSE t - 1

\* a key whose TTL has no tick left is gone after the tick
Alive(ttl) == ttl # 0

\* the clock advances one tick; Redis drops the keys whose TTL has run out
Tick ==
  /\ ride' = [r \in RideIds |->
       IF Alive(ride[r].ttl)
         THEN [ride[r] EXCEPT !.ttl = Elapse(@), !.expireAt = Elapse(@)]
         ELSE NoKey]
  /\ dlock' = [d \in Drivers |->
       IF Alive(dlock[d].ttl) THEN [dlock[d] EXCEPT !.ttl = Elapse(@)] ELSE NoLock]
  /\ pend' = [r \in RideIds |-> Elapse(pend[r])]
  /\ UNCHANGED <<crpc, wpc, wkeys, wdue, wkey, wowed, nops>>

(***************************************************************************)
(*              Hash implementation (Ride-create-assign-3.md)              *)
(*                                                                         *)
(* Rides and drivers are Redis hashes ride:{id} and driver:{id}.  A ride   *)
(* id is `ride-${Date.now()}`, so the ids are the instants of the clock.   *)
(***************************************************************************)
Instants == 1..NumInstants
HashRideIds == Instants
Passengers == 1..NumPassengers
NoPassenger == 0

VARIABLES hride, hdriver, hnow, cmpc, cmride, cmdrv
varsHash == <<hride, hdriver, hnow, cmpc, cmride, cmdrv>>

RIDE_STATUS ==
  [REQUESTED |-> "rq", ASSIGNED |-> "as", STARTED |-> "st",
   COMPLETED |-> "cp", CANCELLED |-> "cl"]
DRIVER_STATUS ==
  [AVAILABLE |-> "av", BUSY |-> "by", OFFLINE |-> "of", SUSPENDED |-> "sp"]

\* HGET on a missing key or field is nil
NoHash == [status |-> "nil", passengerId |-> NoPassenger, driverId |-> NoDriver,
           cancelledBy |-> "nil"]

InitHash ==
  /\ hride = [r \in HashRideIds |-> NoHash]
  /\ hdriver = [d \in Drivers |-> DRIVER_STATUS.AVAILABLE]
  /\ hnow = 1
  /\ cmpc = "idle"
  /\ cmride = NoRide
  /\ cmdrv = NoDriver

\* Date.now() moves on
HashTick ==
  /\ hnow < NumInstants
  /\ hnow' = hnow + 1
  /\ UNCHANGED <<hride, hdriver, cmpc, cmride, cmdrv>>

\* HMSET of the ride object: it has no driverId, so that field of a hash
\* already stored under the id stays as it is
createRideRequest(passengerId) ==
  /\ hride' = [hride EXCEPT ![hnow].status = RIDE_STATUS.REQUESTED,
                            ![hnow].passengerId = passengerId]
  /\ UNCHANGED <<hdriver, hnow, cmpc, cmride, cmdrv>>

acceptRideScriptOK(r, d) ==
  /\ hride[r].status = RIDE_STATUS.REQUESTED
  /\ hdriver[d] = DRIVER_STATUS.AVAILABLE

assignDriver(r, d) ==
  /\ IF acceptRideScriptOK(r, d)
       THEN /\ hride' = [hride EXCEPT ![r].status = RIDE_STATUS.ASSIGNED,
                                      ![r].driverId = d]
            /\ hdriver' = [hdriver EXCEPT ![d] = DRIVER_STATUS.BUSY]
       ELSE UNCHANGED <<hride, hdriver>>
  /\ UNCHANGED <<hnow, cmpc, cmride, cmdrv>>

\* cancelledBy: "passenger" | "driver"
CancelledBy == {"passenger", "driver"}

cancelRide(r, by) ==
  /\ hride' = [hride EXCEPT ![r].status = RIDE_STATUS.CANCELLED,
                            ![r].cancelledBy = by]
  /\ UNCHANGED <<hdriver, hnow, cmpc, cmride, cmdrv>>

\* completeRideAndProcessPayment, first HSET: mark ride as completed
CompleteHsetRide(r, d) ==
  /\ cmpc = "idle"
  /\ hride' = [hride EXCEPT ![r].status = RIDE_STATUS.COMPLETED]
  /\ cmpc' = "driver"
  /\ cmride' = r
  /\ cmdrv' = d
  /\ UNCHANGED <<hdriver, hnow>>

\* completeRideAndProcessPayment, second HSET: free the driver
CompleteHsetDriver ==
  /\ cmpc = "driver"
  /\ hdriver' = [hdriver EXCEPT ![cmdrv] = DRIVER_STATUS.AVAILABLE]
  /\ cmpc' = "idle"
  /\ cmride' = NoRide
  /\ cmdrv' = NoDriver
  /\ UNCHANGED <<hride, hnow>>

(***************************************************************************)
(*        Driver index (kafka.utils.ts: src/driverIndex.js, h3.js)         *)
(*                                                                         *)
(* The world is scaled to one dimension: a latitude is an integer, valid   *)
(* in -MaxLat..MaxLat (the code's 90), and latLngToCell maps CELL_WIDTH    *)
(* neighbouring latitudes to one cell.  A driver is indexed under its car   *)
(* class and under 'any' (bKey and bAny; one bucket when car is 'any').    *)
(* A bucket key is read as mmNow and mmPrev only; its EXPIRE of 180 s      *)
(* outlives both minutes.                                                  *)
(***************************************************************************)
CELL_WIDTH == 2          \* H3 resolution: latitudes per cell of the scaled world

Lats == (0 - MaxLat - 1)..(MaxLat + 1)
ValidLats == (0 - MaxLat)..MaxLat
Minutes == 0..MaxMinutes

\* h3.latLngToCell(lat, lng, res)
latLngToCell(lat) == lat \div CELL_WIDTH
Cells == {latLngToCell(lat) : lat \in Lats}

\* car classes; a bucket exists per class and for 'any'
Cars == {"sedan", "suv"}
CarKeys == Cars \cup {"any"}

VARIABLES
  drvHash,   \* D:{id} hash: Drivers -> [key, lt, c9, ct, ls]
  buckets,   \* C:{cell|car}:{mm} sets:
             \*   {0 (mmNow), 1 (mmPrev)} -> CarKeys -> Cells -> SUBSET Drivers
  clock      \* Date.now(), in minutes

varsIndex == <<drvHash, buckets, clock>>

NoDrv == [key |-> FALSE, lt |-> 0, c9 |-> 0, ct |-> "nil", ls |-> 0]
EmptyBuckets == [car \in CarKeys |-> [c \in Cells |-> {}]]

InitIndex ==
  /\ drvHash = [d \in Drivers |-> NoDrv]
  /\ buckets = [a \in {0, 1} |-> EmptyBuckets]
  /\ clock = 0

Abs(x) == IF x < 0 THEN 0 - x ELSE x

\* if (Math.abs(lat) > 90 || Math.abs(lng) > 180) return { ok: false, reason: 'bad_coords' }
BadCoords(lat) == Abs(lat) > MaxLat

\* updateDriver({ id, lat, lng, car, status, ts }): one pipeline of HSET,
\* SADD and EXPIRE; ts is the caller's, Date.now() by default
updateDriver(id, lat, car, ts) ==
  /\ IF BadCoords(lat)
       THEN UNCHANGED <<drvHash, buckets>>
       ELSE /\ drvHash' = [drvHash EXCEPT ![id] =
                 [key |-> TRUE, lt |-> lat, c9 |-> latLngToCell(lat), ct |-> car,
                  ls |-> ts]]
            /\ buckets' = [buckets EXCEPT
                 ![0][car][latLngToCell(lat)] = @ \cup {id},
                 ![0]["any"][latLngToCell(lat)] = @ \cup {id}]
  /\ UNCHANGED clock

\* membersForCell(cell, car): luaUnion([k1, k2]) of the buckets of mmNow and mmPrev
membersForCell(cell, car) == buckets[0][car][cell] \cup buckets[1][car][cell]

\* the minute changes: minuteKeyFor() names a new bucket, the bucket of the
\* minute before is mmPrev, older ones are read no more
NextMinute ==
  /\ clock < MaxMinutes
  /\ clock' = clock + 1
  /\ buckets' = [a \in {0, 1} |-> IF a = 0 THEN EmptyBuckets ELSE buckets[0]]
  /\ UNCHANGED drvHash

(***************************************************************************)
(*          Driver GEO service (unnamed/part_006, with cleanup job)        *)
(*                                                                         *)
(* One GEO key per cell, driver:cell:{id}, driver:lastSeen:{id} with a TTL *)
(* of LAST_SEEN_TTL_MS, and the set drivers:active.  Same scaled world as  *)
(* the driver index.  GEOADD refuses a latitude out of range.              *)
(***************************************************************************)
NoPos == MaxLat + 2      \* no such member in a GEO key
NoCell == MaxLat + 2     \* GET driver:cell:{id} is nil

VARIABLES
  geo,         \* geo:drivers:h3:{res}:{cell}: Cells -> Drivers -> latitude | NoPos
  driverCell,  \* driver:cell:{id}: Drivers -> cell | NoCell
  lastSeen,    \* driver:lastSeen:{id} exists: Drivers -> BOOLEAN
  active,      \* drivers:active
  clpc,        \* cleanupInactiveDrivers: "idle" | "loop" | "zrem" | "del" | "srem"
  clq,         \* cleanup: drivers of the batch found without lastSeen, not yet handled
  cld,         \* cleanup: the driver being removed
  clcell       \* cleanup: the cell read for it

varsGeo == <<geo, driverCell, lastSeen, active, clpc, clq, cld, clcell>>

InitGeo ==
  /\ geo = [c \in Cells |-> [d \in Drivers |-> NoPos]]
  /\ driverCell = [d \in Drivers |-> NoCell]
  /\ lastSeen = [d \in Drivers |-> FALSE]
  /\ active = {}
  /\ clpc = "idle"
  /\ clq = {}
  /\ cld = NoDriver
  /\ clcell = NoCell

\* GEOADD key lon lat member: an error reply, and no write, on a bad pair
geoadd(cell, lat, id) ==
  IF BadCoords(lat) THEN geo ELSE [geo EXCEPT ![cell][id] = lat]

\* updateLocation(driverId, lat, lon): one pipeline; a command that fails
\* does not stop the commands after it
updateLocation(id, lat) ==
  /\ geo' = geoadd(latLngToCell(lat), lat, id)
  /\ driverCell' = [driverCell EXCEPT ![id] = latLngToCell(lat)]
  /\ lastSeen' = [lastSeen EXCEPT ![id] = TRUE]
  /\ active' = active \cup {id}
  /\ UNCHANGED <<clpc, clq, cld, clcell>>

\* updateLocation of the service that has no cleanup job (the first
\* driver_geo_service.ts of the file): the same pipeline without the SADD
updateLocationNoCleanup(id, lat) ==
  /\ geo' = geoadd(latLngToCell(lat), lat, id)
  /\ driverCell' = [driverCell EXCEPT ![id] = latLngToCell(lat)]
  /\ lastSeen' = [lastSeen EXCEPT ![id] = TRUE]
  /\ UNCHANGED <<active, clpc, clq, cld, clcell>>

\* the PX LAST_SEEN_TTL_MS of driver:lastSeen:{id} runs out
LastSeenExpire(id) ==
  /\ lastSeen[id]
  /\ lastSeen' = [lastSeen EXCEPT ![id] = FALSE]
  /\ UNCHANGED <<geo, driverCell, active, clpc, clq, cld, clcell>>

\* cleanupInactiveDrivers: SSCAN drivers:active and the pipeline of EXISTS
CleanupScan ==
  /\ clpc = "idle"
  /\ clq' = {d \in active : ~lastSeen[d]}
  /\ clpc' = "loop"
  /\ UNCHANGED <<geo, driverCell, lastSeen, active, cld, clcell>>

\* cleanup, the next expired driver: cell = await redis.get(driverCellKey)
CleanupGet(d) ==
  /\ clpc = "loop" /\ d \in clq
  /\ clq' = clq \ {d}
  /\ cld' = d
  /\ clcell' = driverCell[d]
  /\ clpc' = IF driverCell[d] # NoCell THEN "zrem" ELSE "srem"
  /\ UNCHANGED <<geo, driverCell, lastSeen, active>>

\* cleanup: await redis.zrem(geoKey, driverId)
CleanupZrem ==
  /\ clpc = "zrem"
  /\ geo' = [geo EXCEPT ![clcell][cld] = NoPos]
  /\ clpc' = "del"
  /\ UNCHANGED <<driverCell, lastSeen, active, clq, cld, clcell>>

\* cleanup: await redis.del(driverCellKey(driverId))
CleanupDel ==
  /\ clpc = "del"
  /\ driverCell' = [driverCell EXCEPT ![cld] = NoCell]
  /\ clpc' = "srem"
  /\ UNCHANGED <<geo, lastSeen, active, clq, cld, clcell>>

\* cleanup: await redis.srem(ACTIVE_DRIVERS_SET, driverId)
CleanupSrem ==
  /\ clpc = "srem"
  /\ active' = active \ {cld}
  /\ clpc' = "loop"
  /\ cld' = NoDriver
  /\ clcell' = NoCell
  /\ UNCHANGED <<geo, driverCell, lastSeen, clq>>

\* cleanup: the batch is done
CleanupEnd ==
  /\ clpc = "loop" /\ clq = {}
  /\ clpc' = "idle"
  /\ UNCHANGED <<geo, driverCell, lastSeen, active, clq, cld, clcell>>

(***************************************************************************)
(*   Script runners (part_002 runScript, part_000 safeEval, luaUnion of    *)
(*   kafka.utils.ts)                                                       *)
(*                                                                         *)
(* A runner sends EVALSHA with the sha it got when the script was loaded   *)
(* at start-up.  Redis answers NOSCRIPT when the script is not in its      *)
(* cache (SCRIPT FLUSH, restart, failover); any command can fail with      *)
(* another error.  One call at a time is followed.                         *)
(***************************************************************************)
Runners == {"runScript", "safeEval", "luaUnion"}

VARIABLES
  scached,   \* the script is in the script cache of Redis
  spc,       \* the call: "idle" | "evalsha" | "load" | "retry" | "done"
  srun,      \* the runner of the call
  sfirst,    \* the reply to the first EVALSHA: "none" | "ok" | "NOSCRIPT" | "error"
  sres,      \* what the caller got: "none" | "ok" | "NOSCRIPT" | "error"
  sran,      \* times the script, or the command run in its place, took effect
  ssent,     \* commands the call sent to run it: EVALSHA, EVAL, SUNION
  sloads,    \* times the call put the script into the cache: SCRIPT LOAD, EVAL
  scalls     \* calls started so far

varsScripts == <<scached, spc, srun, sfirst, sres, sran, ssent, sloads, scalls>>

\* loadScripts / registerScript / luaShaPromise have run at start-up
InitScripts ==
  /\ scached = TRUE
  /\ spc = "idle"
  /\ srun = "none"
  /\ sfirst = "none"
  /\ sres = "none"
  /\ sran = 0
  /\ ssent = 0
  /\ sloads = 0
  /\ scalls = 0

\* SCRIPT FLUSH, a restart or a failover empties the script cache
ScriptFlush ==
  /\ scached
  /\ scached' = FALSE
  /\ UNCHANGED <<spc, srun, sfirst, sres, sran, ssent, sloads, scalls>>

\* the replies Redis can give to EVALSHA
EvalshaReplies == IF scached THEN {"ok", "error"} ELSE {"NOSCRIPT", "error"}

\* the errors the catch block of each runner handles; the rest is rethrown
\* runScript: if (err?.message?.includes("NOSCRIPT"))
runScriptCatches(reply) == reply = "NOSCRIPT"
\* safeEval: if (String(err && err.message).includes("NOSCRIPT"))
safeEvalCatches(reply) == reply = "NOSCRIPT"
\* luaUnion: catch (e) { return await redis.sunion(...keys) }
luaUnionCatches(reply) == reply # "ok"

Catches(runner, reply) ==
  CASE runner = "runScript" -> runScriptCatches(reply)
    [] runner = "safeEval" -> safeEvalCatches(reply)
    [] runner = "luaUnion" -> luaUnionCatches(reply)

\* a runner is called
ScriptCall(runner) ==
  /\ spc = "idle"
  /\ scalls < MaxScriptCalls
  /\ scalls' = scalls + 1
  /\ spc' = "evalsha"
  /\ srun' = runner
  /\ sfirst' = "none"
  /\ sres' = "none"
  /\ sran' = 0
  /\ ssent' = 0
  /\ sloads' = 0
  /\ UNCHANGED scached

\* try { return await redis.evalsha(sha, ...) } catch ...
Evalsha(reply) ==
  /\ spc = "evalsha"
  /\ reply \in EvalshaReplies
  /\ sfirst' = reply
  /\ ssent' = 1
  /\ sran' = IF reply = "ok" THEN 1 ELSE 0
  /\ IF reply # "ok" /\ Catches(srun, reply)
       THEN /\ spc' = IF srun = "runScript" THEN "load" ELSE "retry"
            /\ sres' = sres
       ELSE /\ spc' = "done"
            /\ sres' = reply
  /\ UNCHANGED <<scached, srun, sloads, scalls>>

\* runScript: const newSha = await redis.script("load", script.code); an
\* error here leaves the catch block
ScriptLoad(reply) ==
  /\ spc = "load"
  /\ reply \in {"ok", "error"}
  /\ IF reply = "ok"
       THEN scached' = TRUE /\ sloads' = sloads + 1 /\ spc' = "retry" /\ sres' = sres
       ELSE scached' = scached /\ sloads' = sloads /\ spc' = "done" /\ sres' = reply
  /\ UNCHANGED <<srun, sfirst, sran, ssent, scalls>>

\* the replies to the second command: runScript sends EVALSHA newSha,
\* safeEval sends EVAL with the script, luaUnion sends SUNION
RetryReplies == IF srun = "runScript" THEN EvalshaReplies ELSE {"ok", "error"}

\* the second command; its result or error goes to the caller.  EVAL puts
\* the script it runs into the cache.
Retry(reply) ==
  /\ spc = "retry"
  /\ reply \in RetryReplies
  /\ ssent' = ssent + 1
  /\ sran' = IF reply = "ok" THEN sran + 1 ELSE sran
  /\ sres' = reply
  /\ spc' = "done"
  /\ IF srun = "safeEval" /\ reply = "ok"
       THEN scached' = TRUE /\ sloads' = sloads + 1
       ELSE scached' = scached /\ sloads' = sloads
  /\ UNCHANGED <<srun, sfirst, scalls>>

\* the caller has its answer
ScriptReturn ==
  /\ spc = "done"
  /\ spc' = "idle"
  /\ UNCHANGED <<scached, srun, sfirst, sres, sran, ssent, sloads, scalls>>

\* h3.gridDisk(centerCell, rings): the cells within rings steps of the
\* centre, the centre first; a cell off the map has no GEO key
RECURSIVE gridDisk(_, _)
gridDisk(center, k) ==
  IF k = 0 THEN <<center>>
  ELSE gridDisk(center, k - 1) \o <<center - k, center + k>>

\* Math.ceil(radiusMeters / edgeLengthMeters)
Rings(radius) == (radius + CELL_WIDTH - 1) \div CELL_WIDTH

\* the members of a cell's GEO key within the radius of the query point
InRadius(cell, lat, radius) ==
  IF cell \notin Cells THEN {}
  ELSE {d \in Drivers : geo[cell][d] # NoPos /\ Abs(geo[cell][d] - lat) <= radius}

\* GEOSEARCH key FROMLONLAT lon lat BYRADIUS r m WITHDIST WITHCOORD ASC COUNT n:
\* nearest first (equal distances by member), at most count of them
RECURSIVE geosearchAsc(_, _, _, _)
geosearchAsc(cell, lat, members, count) ==
  IF members = {} \/ count = 0 THEN <<>>
  ELSE LET m == CHOOSE d \in members : \A e \in members :
                  \/ Abs(geo[cell][d] - lat) < Abs(geo[cell][e] - lat)
                  \/ Abs(geo[cell][d] - lat) = Abs(geo[cell][e] - lat) /\ d <= e
       IN <<[driverId |-> m, distance |-> Abs(geo[cell][m] - lat), lat |-> geo[cell][m]]>>
            \o geosearchAsc(cell, lat, members \ {m}, count - 1)

GEOSEARCH(cell, lat, radius, count) ==
  geosearchAsc(cell, lat, InRadius(cell, lat, radius), count)

\* rawResults ... flatMap: the replies of the pipeline, cell after cell
RECURSIVE flatMap(_, _, _, _)
flatMap(cells, lat, radius, count) ==
  IF cells = <<>> THEN <<>>
  ELSE GEOSEARCH(Head(cells), lat, radius, count) \o flatMap(Tail(cells), lat, radius, count)

\* .sort((a, b) => a.distance - b.distance): stable
RECURSIVE insertSorted(_, _)
insertSorted(sorted, e) ==
  IF sorted = <<>> THEN <<e>>
  ELSE IF Head(sorted).distance <= e.distance
         THEN <<Head(sorted)>> \o insertSorted(Tail(sorted), e)
         ELSE <<e>> \o sorted

RECURSIVE sortByDistance(_)
sortByDistance(results) ==
  IF results = <<>> THEN <<>>
  ELSE insertSorted(sortByDistance(SubSeq(results, 1, Len(results) - 1)),
                    results[Len(results)])

\* merged.filter((r) => { if (seen.has(r.driverId)) return false; seen.add(...); return true })
RECURSIVE uniqueFrom(_, _)
uniqueFrom(merged, seen) ==
  IF merged = <<>> THEN <<>>
  ELSE IF Head(merged).driverId \in seen
         THEN uniqueFrom(Tail(merged), seen)
         ELSE <<Head(merged)>> \o uniqueFrom(Tail(merged), seen \cup {Head(merged).driverId})

\* merged as it is, were the seen filter absent
UniqueKeepAll(merged) == merged

\* unique = merged.filter(...)
Unique(merged) == uniqueFrom(merged, {})

\* unique as it is, were the slice absent
SliceKeepAll(results, n) == results

\* unique.slice(0, maxResults)
Slice(results, n) == SubSeq(results, 1, IF Len(results) < n THEN Len(results) ELSE n)

Merged(lat, radius, maxResults) ==
  sortByDistance(flatMap(gridDisk(latLngToCell(lat), Rings(radius)), lat, radius, maxResults))

searchNearby(lat, radius, maxResults) ==
  Slice(Unique(Merged(lat, radius, maxResults)), maxResults)

\* the queries: a valid point, a radius up to MaxRadius, and a result limit
\* of one or of every driver (maxResults)
Radii == 0..MaxRadius
Limits == {1, NumDrivers}

\* the reply of luaUnion as an array: union.lua walks its table with pairs(),
\* whose order Lua leaves open; the ids are listed in ascending order here
RECURSIVE idList(_)
idList(ids) ==
  IF ids = {} THEN <<>>
  ELSE LET m == CHOOSE d \in ids : \A e \in ids : d <= e
       IN <<m>> \o idList(ids \ {m})

\* fetchDrivers(ids): HGETALL D:{id} of each id, kept when the hash has lt
RECURSIVE fetchDrivers(_)
fetchDrivers(ids) ==
  IF ids = <<>> THEN <<>>
  ELSE (IF drvHash[Head(ids)].key
          THEN <<[driverId |-> Head(ids), lt |-> drvHash[Head(ids)].lt,
                  ct |-> drvHash[Head(ids)].ct, ls |-> drvHash[Head(ids)].ls]>>
          ELSE <<>>) \o fetchDrivers(Tail(ids))

\* drivers.map(d => ({ ...d, dist: hav(lat, lng, d.lt, d.lg) }))
withDist(drivers, lat) ==
  [i \in 1..Len(drivers) |->
     [driverId |-> drivers[i].driverId, ct |-> drivers[i].ct, ls |-> drivers[i].ls,
      distance |-> Abs(drivers[i].lt - lat)]]

\* GET /rider/search: the members of the origin cell for the car class,
\* sorted by distance and cut to limit
riderSearch(lat, car, limit) ==
  Slice(sortByDistance(withDist(fetchDrivers(idList(membersForCell(latLngToCell(lat), car))),
                                lat)),
        limit)

(***************************************************************************)
(*   Kafka utilities (kafka.utils.ts: publishEvent, subscribeEvent,        *)
(*   retryMessage)                                                         *)
(*                                                                         *)
(* A message is its value (an id) and its retries header (0: no header).   *)
(* publishEvent is called by the application and, through retryMessage or  *)
(* for the dead-letter topic, by the consumer's eachMessage, which awaits   *)
(* it before the next message is handled.                                  *)
(***************************************************************************)
RETRY_LIMIT == 2         \* import { RETRY_LIMIT, DLQ_TOPIC } from "./constants"
DLQ_TOPIC == "dlq"
TOPIC == "topic"         \* the topic published to and subscribed to
KTopics == {TOPIC, DLQ_TOPIC}

Publishers == 1..NumPublishers
Consumer == 0            \* eachMessage as a caller of publishEvent
Callers == Publishers \cup {Consumer}
MsgIds == 1..(NumPublishers * BatchSize)
Millis == 0..MaxMillis
NoValue == 0           \* no such key in the offline store

VARIABLES
  ktopic,    \* messages published to TOPIC and not yet consumed
  kdlq,      \* MsgIds -> times the message was published to DLQ_TOPIC
  koff,      \* Redis offline:kafka:{topic}:{ms}: KTopics \X Millis -> value of a message
  know,      \* Date.now()
  ppc,       \* publishEvent call of a caller: "idle" | "send" | "save" | "done"
  ptopic,    \* its topic
  pbatch,    \* its messages
  pidx,      \* catch block: index of the next message to save
  pfail,     \* its send was rejected
  khandled,  \* history: MsgIds -> times onMessage ran for the message
  kok        \* history: MsgIds -> onMessage returned without throwing

varsKafka == <<ktopic, kdlq, koff, know, ppc, ptopic, pbatch, pidx, pfail, khandled, kok>>

InitKafka ==
  /\ ktopic = {}
  /\ kdlq = [m \in MsgIds |-> 0]
  /\ koff = [k \in KTopics \X Millis |-> NoValue]
  /\ know = 0
  /\ ppc = [p \in Callers |-> "idle"]
  /\ ptopic = [p \in Callers |-> TOPIC]
  /\ pbatch = [p \in Callers |-> <<>>]
  /\ pidx = [p \in Callers |-> 0]
  /\ pfail = [p \in Callers |-> FALSE]
  /\ khandled = [m \in MsgIds |-> 0]
  /\ kok = [m \in MsgIds |-> FALSE]

\* a producer has published NumMessages messages, which wait in the topic
InitKafkaConsume ==
  /\ ktopic = {[id |-> m, retries |-> 0] : m \in 1..NumMessages}
  /\ kdlq = [m \in MsgIds |-> 0]
  /\ koff = [k \in KTopics \X Millis |-> NoValue]
  /\ know = 0
  /\ ppc = [p \in Callers |-> "idle"]
  /\ ptopic = [p \in Callers |-> TOPIC]
  /\ pbatch = [p \in Callers |-> <<>>]
  /\ pidx = [p \in Callers |-> 0]
  /\ pfail = [p \in Callers |-> FALSE]
  /\ khandled = [m \in MsgIds |-> 0]
  /\ kok = [m \in MsgIds |-> FALSE]

\* Date.now() moves on by a millisecond
KafkaTick ==
  /\ know < MaxMillis
  /\ know' = know + 1
  /\ UNCHANGED <<ktopic, kdlq, koff, ppc, ptopic, pbatch, pidx, pfail, khandled, kok>>

\* the batch publisher p sends: BatchSize messages of its own, no header
BatchOf(p) == [i \in 1..BatchSize |-> [id |-> (p - 1) * BatchSize + i, retries |-> 0]]

\* publishEvent({ topic, messages }) is called: connectKafka() returns
publishEvent(p, topic, messages) ==
  /\ ppc[p] = "idle"
  /\ ppc' = [ppc EXCEPT ![p] = "send"]
  /\ ptopic' = [ptopic EXCEPT ![p] = topic]
  /\ pbatch' = [pbatch EXCEPT ![p] = messages]
  /\ pidx' = [pidx EXCEPT ![p] = 0]
  /\ pfail' = [pfail EXCEPT ![p] = FALSE]

\* the application publishes a batch
PublishCall(p) ==
  /\ publishEvent(p, TOPIC, BatchOf(p))
  /\ UNCHANGED <<ktopic, kdlq, koff, know, khandled, kok>>

Range(seq) == {seq[i] : i \in 1..Len(seq)}

\* await kafkaProducer.send(...) resolves: the batch is in its topic
SendOk(p) ==
  /\ ppc[p] = "send"
  /\ IF ptopic[p] = DLQ_TOPIC
       THEN /\ kdlq' = [m \in MsgIds |->
                   kdlq[m] + Cardinality({i \in 1..Len(pbatch[p]) : pbatch[p][i].id = m})]
            /\ ktopic' = ktopic
       ELSE /\ ktopic' = ktopic \cup Range(pbatch[p])
            /\ kdlq' = kdlq
  /\ ppc' = [ppc EXCEPT ![p] = "done"]
  /\ UNCHANGED <<koff, know, ptopic, pbatch, pidx, pfail, khandled, kok>>

\* await kafkaProducer.send(...) rejects: the catch block starts its loop
SendFails(p) ==
  /\ ppc[p] = "send"
  /\ pfail' = [pfail EXCEPT ![p] = TRUE]
  /\ pidx' = [pidx EXCEPT ![p] = 1]
  /\ ppc' = [ppc EXCEPT ![p] = IF Len(pbatch[p]) = 0 THEN "done" ELSE "save"]
  /\ UNCHANGED <<ktopic, kdlq, koff, know, ptopic, pbatch, khandled, kok>>

\* the key of the catch block: `offline:kafka:${topic}:${Date.now()}`
OfflineKey(topic) == <<topic, know>>

\* catch block, one turn of the loop: await redis.set(key, m.value), the
\* value without the headers
SaveOffline(p) ==
  /\ ppc[p] = "save"
  /\ koff' = [koff EXCEPT ![OfflineKey(ptopic[p])] = pbatch[p][pidx[p]].id]
  /\ pidx' = [pidx EXCEPT ![p] = @ + 1]
  /\ ppc' = [ppc EXCEPT ![p] = IF pidx[p] = Len(pbatch[p]) THEN "done" ELSE "save"]
  /\ UNCHANGED <<ktopic, kdlq, know, ptopic, pbatch, pfail, khandled, kok>>

\* publishEvent returns to its caller
PublishReturn(p) ==
  /\ ppc[p] = "done"
  /\ ppc' = [ppc EXCEPT ![p] = "idle"]
  /\ pbatch' = [pbatch EXCEPT ![p] = <<>>]
  /\ pidx' = [pidx EXCEPT ![p] = 0]
  /\ pfail' = [pfail EXCEPT ![p] = FALSE]
  /\ UNCHANGED <<ktopic, kdlq, koff, know, ptopic, khandled, kok>>

\* retryMessage(topic, message, retries)
retryMessage(message, retries) ==
  publishEvent(Consumer, TOPIC, <<[id |-> message.id, retries |-> retries]>>)

\* eachMessage, onMessage returns: the message is done with
EachMessageOk(msg) ==
  /\ ppc[Consumer] = "idle"
  /\ msg \in ktopic
  /\ ktopic' = ktopic \ {msg}
  /\ khandled' = [khandled EXCEPT ![msg.id] = @ + 1]
  /\ kok' = [kok EXCEPT ![msg.id] = TRUE]
  /\ UNCHANGED <<kdlq, koff, know, ppc, ptopic, pbatch, pidx, pfail>>

\* eachMessage, onMessage throws: retries < RETRY_LIMIT ? retryMessage(...)
\* : publishEvent({ topic: DLQ_TOPIC, ... }), a message with no header
EachMessageFails(msg) ==
  /\ msg \in ktopic
  /\ ktopic' = ktopic \ {msg}
  /\ khandled' = [khandled EXCEPT ![msg.id] = @ + 1]
  /\ IF msg.retries < RETRY_LIMIT
       THEN retryMessage(msg, msg.retries + 1)
       ELSE publishEvent(Consumer, DLQ_TOPIC, <<[id |-> msg.id, retries |-> 0]>>)
  /\ UNCHANGED <<kdlq, koff, know, kok>>

(***************************************************************************)
(*   Redis service (utils/redisService.ts: initClient, initSubscriber)     *)
(*                                                                         *)
(* The module variables client and subscriberClient hold an instance (its  *)
(* number, in order of creation) or null (0).  A caller runs without       *)
(* interruption up to its next await.                                      *)
(***************************************************************************)
InitCallers == 1..NumInitCallers
NullClient == 0

VARIABLES
  client,            \* let client: RedisClient | null
  subscriberClient,  \* let subscriberClient: RedisClient | null
  nclient,           \* history: instances made by new Redis(options)
  nsub,              \* history: instances made by mainClient.duplicate()
  ipc,               \* caller: "idle" | "await" | "done"
  ifn,               \* the function the caller called
  iret,              \* the instance the call resolved to
  gotClient,         \* history: instances initClient resolved to
  gotSub             \* history: instances initSubscriber resolved to

varsClient == <<client, subscriberClient, nclient, nsub, ipc, ifn, iret, gotClient, gotSub>>

InitClient ==
  /\ client = NullClient
  /\ subscriberClient = NullClient
  /\ nclient = 0
  /\ nsub = 0
  /\ ipc = [c \in InitCallers |-> "idle"]
  /\ ifn = [c \in InitCallers |-> "none"]
  /\ iret = [c \in InitCallers |-> NullClient]
  /\ gotClient = {}
  /\ gotSub = {}

\* initClient's body: if (!client) { client = new Redis(options); ... }
NewClient == IF client = NullClient THEN nclient + 1 ELSE client

\* initClient(): the test and the assignment with no await between them
initClient(c) ==
  /\ ipc[c] = "idle"
  /\ client' = NewClient
  /\ nclient' = IF client = NullClient THEN nclient + 1 ELSE nclient
  /\ ipc' = [ipc EXCEPT ![c] = "done"]
  /\ ifn' = [ifn EXCEPT ![c] = "initClient"]
  /\ iret' = [iret EXCEPT ![c] = NewClient]
  /\ gotClient' = gotClient \cup {NewClient}
  /\ UNCHANGED <<subscriberClient, nsub, gotSub>>

\* initSubscriber(), up to its await: if (!subscriberClient) { await initClient()
\* : initClient's body has run; else return subscriberClient
initSubscriber(c) ==
  /\ ipc[c] = "idle"
  /\ ifn' = [ifn EXCEPT ![c] = "initSubscriber"]
  /\ IF subscriberClient = NullClient
       THEN /\ client' = NewClient
            /\ nclient' = IF client = NullClient THEN nclient + 1 ELSE nclient
            /\ ipc' = [ipc EXCEPT ![c] = "await"]
            /\ UNCHANGED <<iret, gotSub>>
       ELSE /\ ipc' = [ipc EXCEPT ![c] = "done"]
            /\ iret' = [iret EXCEPT ![c] = subscriberClient]
            /\ gotSub' = gotSub \cup {subscriberClient}
            /\ UNCHANGED <<client, nclient>>
  /\ UNCHANGED <<subscriberClient, nsub, gotClient>>

\* initSubscriber() after its await: subscriberClient = mainClient.duplicate();
\* return subscriberClient
InitSubscriberResume(c) ==
  /\ ipc[c] = "await"
  /\ subscriberClient' = nsub + 1
  /\ nsub' = nsub + 1
  /\ ipc' = [ipc EXCEPT ![c] = "done"]
  /\ iret' = [iret EXCEPT ![c] = nsub + 1]
  /\ gotSub' = gotSub \cup {nsub + 1}
  /\ UNCHANGED <<client, nclient, ifn, gotClient>>

\* the caller goes on and may call again
InitCallerReturn(c) ==
  /\ ipc[c] = "done"
  /\ ipc' = [ipc EXCEPT ![c] = "idle"]
  /\ ifn' = [ifn EXCEPT ![c] = "none"]
  /\ iret' = [iret EXCEPT ![c] = NullClient]
  /\ UNCHANGED <<client, subscriberClient, nclient, nsub, gotClient, gotSub>>

(***************************************************************************)
(*                           Specifications                                *)
(***************************************************************************)
vars == <<varsMongo, varsLua, varsHash, varsIndex, varsGeo, varsScripts, varsKafka, varsClient>>

FrameMongo == UNCHANGED <<varsLua, varsHash, varsIndex, varsGeo, varsScripts, varsKafka, varsClient>>
FrameLua == UNCHANGED <<varsMongo, varsHash, varsIndex, varsGeo, varsScripts, varsKafka, varsClient>>
FrameHash == UNCHANGED <<varsMongo, varsLua, varsIndex, varsGeo, varsScripts, varsKafka, varsClient>>
FrameIndex == UNCHANGED <<varsMongo, varsLua, varsHash, varsGeo, varsScripts, varsKafka, varsClient>>
FrameGeo == UNCHANGED <<varsMongo, varsLua, varsHash, varsIndex, varsScripts, varsKafka, varsClient>>
FrameScripts == UNCHANGED <<varsMongo, varsLua, varsHash, varsIndex, varsGeo, varsKafka, varsClient>>
FrameKafka == UNCHANGED <<varsMongo, varsLua, varsHash, varsIndex, varsGeo, varsScripts, varsClient>>
FrameClient == UNCHANGED <<varsMongo, varsLua, varsHash, varsIndex, varsGeo, varsScripts, varsKafka>>

\* createRide calls alone
NextMongoCreate ==
  \/ \E c \in CreateCalls, k \in IdemKeys : CreateReserve(c, k) /\ FrameMongo
  \/ \E c \in CreateCalls : CreateFind(c) /\ FrameMongo
  \/ \E c \in CreateCalls : CreatePersist(c) /\ FrameMongo
  \/ \E c \in CreateCalls : CreatePersistFails(c) /\ FrameMongo
  \/ \E c \in CreateCalls : CreateRollback(c) /\ FrameMongo
  \/ \E k \in IdemKeys : IdemExpire(k) /\ FrameMongo

\* acceptRide calls alone, on rides createRide has persisted
NextMongoAccept ==
  \/ \E d \in Drivers, r \in ObjectIds \cup {UnknownRide} : AcceptLock(d, r) /\ FrameMongo
  \/ \E d \in Drivers : AcceptUpdate(d) /\ FrameMongo
  \/ \E d \in Drivers : AcceptReturn(d) /\ FrameMongo
  \/ \E r \in ObjectIds \cup {UnknownRide} : LockExpire(r) /\ FrameMongo

NextLua ==
  \/ \E r \in RideIds : CreateHmset(r) /\ FrameLua
  \/ \E r \in RideIds : CreateExpire(r) /\ FrameLua
  \/ \E d \in Drivers, r \in RideIds : Accept(d, r) /\ FrameLua
  \/ \E r \in RideIds : PassengerCancel(r) /\ FrameLua
  \/ \E d \in Drivers, r \in RideIds : DriverCancel(d, r) /\ FrameLua
  \/ ExpireRidesStart /\ FrameLua
  \/ \E r \in RideIds : ExpireRidesReadExpireAt(r) /\ FrameLua
  \/ ExpireRidesReadStatus /\ FrameLua
  \/ ExpireRidesHset /\ FrameLua
  \/ ExpireRidesEnd /\ FrameLua
  \/ Tick /\ FrameLua

NextHash ==
  \/ HashTick /\ FrameHash
  \/ \E p \in Passengers : createRideRequest(p) /\ FrameHash
  \/ \E r \in HashRideIds, d \in Drivers : assignDriver(r, d) /\ FrameHash
  \/ \E r \in HashRideIds, by \in CancelledBy : cancelRide(r, by) /\ FrameHash
  \/ \E r \in HashRideIds, d \in Drivers : CompleteHsetRide(r, d) /\ FrameHash
  \/ CompleteHsetDriver /\ FrameHash

\* client timestamps are not ahead of the clock
NextIndex ==
  \/ \E id \in Drivers, lat \in Lats, ts \in Minutes :
       ts <= clock /\ updateDriver(id, lat, "any", ts) /\ FrameIndex
  \/ NextMinute /\ FrameIndex

\* drivers that stay at one point and report a car class, with ts = Date.now()
CarLats == {0}

NextIndexCars ==
  \/ \E id \in Drivers, lat \in CarLats, car \in CarKeys :
       updateDriver(id, lat, car, clock) /\ FrameIndex
  \/ NextMinute /\ FrameIndex

NextGeo ==
  \/ \E id \in Drivers, lat \in Lats : updateLocation(id, lat) /\ FrameGeo
  \/ \E id \in Drivers : LastSeenExpire(id) /\ FrameGeo
  \/ CleanupScan /\ FrameGeo
  \/ \E d \in Drivers : CleanupGet(d) /\ FrameGeo
  \/ CleanupZrem /\ FrameGeo
  \/ CleanupDel /\ FrameGeo
  \/ CleanupSrem /\ FrameGeo
  \/ CleanupEnd /\ FrameGeo

\* the cleanup job with no update during a pass: updateLocation runs only
\* between two passes
NextGeoSerial ==
  \/ \E id \in Drivers, lat \in Lats : clpc = "idle" /\ updateLocation(id, lat) /\ FrameGeo
  \/ \E id \in Drivers : LastSeenExpire(id) /\ FrameGeo
  \/ CleanupScan /\ FrameGeo
  \/ \E d \in Drivers : CleanupGet(d) /\ FrameGeo
  \/ CleanupZrem /\ FrameGeo
  \/ CleanupDel /\ FrameGeo
  \/ CleanupSrem /\ FrameGeo
  \/ CleanupEnd /\ FrameGeo

\* the location updates alone: searchNearby reads the GEO keys only, and the
\* cleanup job removes members that updateLocation added.  The latitudes are
\* the valid ones and one out-of-range latitude, whose GEOADD fails.
SearchLats == ValidLats \cup {MaxLat + 1}

NextGeoSearch ==
  \/ \E id \in Drivers, lat \in SearchLats : updateLocation(id, lat) /\ FrameGeo

\* the service without the cleanup job: location updates, valid or not
NextGeoNoCleanup ==
  \/ \E id \in Drivers, lat \in SearchLats : updateLocationNoCleanup(id, lat) /\ FrameGeo

NextScripts ==
  \/ \E runner \in Runners : ScriptCall(runner) /\ FrameScripts
  \/ \E reply \in {"ok", "NOSCRIPT", "error"} : Evalsha(reply) /\ FrameScripts
  \/ \E reply \in {"ok", "error"} : ScriptLoad(reply) /\ FrameScripts
  \/ \E reply \in {"ok", "NOSCRIPT", "error"} : Retry(reply) /\ FrameScripts
  \/ ScriptReturn /\ FrameScripts
  \/ ScriptFlush /\ FrameScripts

\* the application's publishEvent calls, whose sends Kafka takes or rejects
NextKafkaPublish ==
  \/ \E p \in Publishers : PublishCall(p) /\ FrameKafka
  \/ \E p \in Publishers : SendOk(p) /\ FrameKafka
  \/ \E p \in Publishers : SendFails(p) /\ FrameKafka
  \/ \E p \in Publishers : SaveOffline(p) /\ FrameKafka
  \/ \E p \in Publishers : PublishReturn(p) /\ FrameKafka
  \/ KafkaTick /\ FrameKafka

\* the consumer of subscribeEvent on the messages waiting in its topic
NextKafkaRetry ==
  \/ \E msg \in ktopic : EachMessageOk(msg) /\ FrameKafka
  \/ \E msg \in ktopic : EachMessageFails(msg) /\ FrameKafka
  \/ SendOk(Consumer) /\ FrameKafka
  \/ SendFails(Consumer) /\ FrameKafka
  \/ SaveOffline(Consumer) /\ FrameKafka
  \/ PublishReturn(Consumer) /\ FrameKafka
  \/ KafkaTick /\ FrameKafka

NextRedisService ==
  \/ \E c \in InitCallers : initClient(c) /\ FrameClient
  \/ \E c \in InitCallers : initSubscriber(c) /\ FrameClient
  \/ \E c \in InitCallers : InitSubscriberResume(c) /\ FrameClient
  \/ \E c \in InitCallers : InitCallerReturn(c) /\ FrameClient

InitRideMongoCreate == InitMongo /\ InitLua /\ InitHash /\ InitIndex /\ InitGeo /\ InitScripts /\ InitKafka /\ InitClient
InitRideMongoAccept == InitMongoAccept /\ InitLua /\ InitHash /\ InitIndex /\ InitGeo /\ InitScripts /\ InitKafka /\ InitClient
InitRideLua == InitLua /\ InitMongo /\ InitHash /\ InitIndex /\ InitGeo /\ InitScripts /\ InitKafka /\ InitClient
InitRideHash == InitHash /\ InitMongo /\ InitLua /\ InitIndex /\ InitGeo /\ InitScripts /\ InitKafka /\ InitClient
InitDriverIndex == InitIndex /\ InitMongo /\ InitLua /\ InitHash /\ InitGeo /\ InitScripts /\ InitKafka /\ InitClient
InitDriverGeo == InitGeo /\ InitMongo /\ InitLua /\ InitHash /\ InitIndex /\ InitScripts /\ InitKafka /\ InitClient
InitScriptRunners == InitScripts /\ InitMongo /\ InitLua /\ InitHash /\ InitIndex /\ InitGeo /\ InitKafka /\ InitClient
InitRest == InitMongo /\ InitLua /\ InitHash /\ InitIndex /\ InitGeo /\ InitScripts
InitKafkaPublish == InitKafka /\ InitClient /\ InitRest
InitKafkaRetry == InitKafkaConsume /\ InitClient /\ InitRest
InitRedisService == InitClient /\ InitKafka /\ InitRest

SpecMongoCreate == InitRideMongoCreate /\ [][NextMongoCreate]_vars
SpecMongoAccept == InitRideMongoAccept /\ [][NextMongoAccept]_vars
SpecRideLua == InitRideLua /\ [][NextLua]_vars
SpecRideHash == InitRideHash /\ [][NextHash]_vars
SpecDriverIndex == InitDriverIndex /\ [][NextIndex]_vars
SpecDriverCars == InitDriverIndex /\ [][NextIndexCars]_vars
SpecDriverGeo == InitDriverGeo /\ [][NextGeo]_vars
SpecGeoSerial == InitDriverGeo /\ [][NextGeoSerial]_vars
SpecGeoSearch == InitDriverGeo /\ [][NextGeoSearch]_vars
SpecGeoNoCleanup == InitDriverGeo /\ [][NextGeoNoCleanup]_vars
SpecScripts == InitScriptRunners /\ [][NextScripts]_vars
SpecKafkaPublish == InitKafkaPublish /\ [][NextKafkaPublish]_vars
SpecKafkaRetry == InitKafkaRetry /\ [][NextKafkaRetry]_vars
SpecRedisService == InitRedisService /\ [][NextRedisService]_vars

(***************************************************************************)
(*                         Claims: Mongo                                   *)
(***************************************************************************)
DoneAccepts(r) == {d \in Drivers : apc[d] = "done" /\ arid[d] = r}
InFlightAccepts(r) == {d \in Drivers : apc[d] = "update" /\ arid[d] = r}

\* C1: for any interleaving of acceptRide calls by different drivers on the
\* same requested ride, exactly one call returns the ride and binds its
\* driver; every other call fails, and the ride's driver stays the winner's.
\* At most one driver ever wins a ride; an accepted ride carries exactly the
\* winner; and once calls on a ride have returned and none is in flight, one
\* of the calls made has won and every other finished call has failed.
C1_ExactlyOneAcceptWins ==
  \A r \in ObjectIds :
    /\ Cardinality(winners[r]) <= 1
    /\ mongo[r].status = "accepted" => winners[r] = {mongo[r].driverId}
    /\ mongo[r].status = "requested" => winners[r] = {}
    /\ \A d \in DoneAccepts(r) :
         /\ ares[d] \in {"ok", "locked", "notfound"}
         /\ ares[d] = "ok" => winners[r] = {d}
    /\ (DoneAccepts(r) # {} /\ InFlightAccepts(r) = {}) =>
         /\ Cardinality(winners[r]) = 1
         /\ mongo[r].status = "accepted"

\* C1 witness: two drivers called acceptRide on the same ride; one won and
\* is bound, the other was rejected.
C1_Witness ==
  \E r \in ObjectIds : \E d1, d2 \in Drivers :
    /\ d1 # d2
    /\ {d1, d2} \subseteq DoneAccepts(r)
    /\ ares[d1] = "ok" /\ ares[d2] \in {"locked", "notfound"}
    /\ mongo[r].driverId = d1

\* C8 (as stated): an acceptRide that is rejected leaves the per-ride accept
\* lock as it was. A call rejected by the Mongo filter ("Ride already
\* accepted or not found") got SETNX = 1, so the lock was free before the
\* call: it must not be held by the caller after the rejection.
C8_RejectedAcceptLeavesNoLock ==
  \A d \in Drivers :
    (apc[d] = "done" /\ ares[d] = "notfound") => rlock[arid[d]] # d

RidesOfKey(k) == {r \in ObjectIds : mongo[r].status # "none" /\ mongo[r].idemKey = k}

C27_RollbackSparesPersistedRides ==
  [][\A c \in CreateCalls :
       (cpc[c] = "rollback" /\ cpc'[c] = "done" /\ idem[ckey[c]] # NoRide) =>
         mongo[idem[ckey[c]]].status = "none"]_vars

\* a step of an acceptRide call of driver d on ride r: the call starts (the
\* lock script runs) or its findOneAndUpdate runs
AcceptStep(d, r) ==
  \/ apc[d] = "idle" /\ apc'[d] # "idle" /\ arid'[d] = r
  \/ apc[d] = "update" /\ arid[d] = r /\ apc'[d] = "done"

\* C26: repeating an acceptRide that succeeded changes nothing of the ride
\* (status, driver, acceptedAt), and leaves every lock as it was, or, when
\* the ride's lock has timed out, as the first call left it (held by d).
C26_RepeatedAcceptIsIdempotent ==
  [][\A d \in Drivers, r \in ObjectIds :
       (d \in winners[r] /\ AcceptStep(d, r)) =>
         /\ mongo' = mongo
         /\ \A r2 \in ObjectIds \cup {UnknownRide} :
              rlock'[r2] = rlock[r2] \/ (r2 = r /\ rlock'[r2] = d)]_vars

\* C26 witness: a driver who won a ride has called acceptRide on it again,
\* after the lock timed out, and the call is over
C26_Witness ==
  \E d \in Drivers :
    /\ apc[d] = "done" /\ ares[d] = "notfound"
    /\ arid[d] \in ObjectIds /\ d \in winners[arid[d]]
    /\ mongo[arid[d]].status = "accepted" /\ mongo[arid[d]].driverId = d
    /\ rlock[arid[d]] = d

\* an acceptRide call of driver d on ride r starts: its LOCK_SCRIPT runs
AcceptStarts(d, r) == apc[d] = "idle" /\ apc'[d] # "idle" /\ arid'[d] = r

\* C36: lock:ride:{rideId} never passes from one driver to another while it
\* is held, and has a time to live whenever it is set; an acceptRide that
\* finds it held is rejected and leaves the ride documents and the locks as
\* they are; an acceptRide that finds it free (never taken, or lapsed) takes
\* it, and accepts the ride if it is still requested.
C36_AcceptLockIsExclusiveAndLapses ==
  [][\A r \in ObjectIds \cup {UnknownRide} :
       /\ rlock[r] # NoDriver => rlock'[r] \in {rlock[r], NoDriver}
       /\ rlock'[r] # NoDriver => rttl'[r]
       /\ \A d \in Drivers :
            /\ (AcceptStarts(d, r) /\ rlock[r] # NoDriver) =>
                 /\ apc'[d] = "done" /\ ares'[d] = "locked"
                 /\ mongo' = mongo /\ rlock' = rlock
            /\ (AcceptStarts(d, r) /\ rlock[r] = NoDriver) =>
                 /\ apc'[d] = "update" /\ rlock'[r] = d
            /\ (/\ apc[d] = "update" /\ apc'[d] = "done" /\ arid[d] = r
                /\ r \in ObjectIds /\ mongo[r].status = "requested") =>
                 /\ ares'[d] = "ok"
                 /\ mongo'[r].status = "accepted" /\ mongo'[r].driverId = d]_vars

\* C36 witness: a driver took the lock of a requested ride and has not
\* written yet; the lock lapsed, a second driver took it and accepted the ride
C36_Witness ==
  \E r \in ObjectIds : \E d1, d2 \in Drivers :
    /\ d1 # d2
    /\ apc[d1] = "update" /\ arid[d1] = r
    /\ rlock[r] = d2 /\ rttl[r]
    /\ mongo[r].status = "accepted" /\ mongo[r].driverId = d2

(***************************************************************************)
(*                          Claims: Lua                                    *)
(***************************************************************************)
LockOn(r) == {d \in Drivers : dlock[d].ride = r}

\* C2 (as stated): in every reachable state no driver is the assigned driver
\* of two non-terminal rides: an accept by a driver who is already bound to
\* another ride is rejected.
C2_DriverBoundToOneRide ==
  \A r1, r2 \in RideIds :
    (r1 # r2 /\ ride[r1].status = "assigned" /\ ride[r2].status = "assigned")
      => ride[r1].assigned # ride[r2].assigned

\* C4 (as stated): when the expiry worker's sweep of a ride races an accept
\* of the same ride, one of the two takes effect: the ride ends assigned
\* with its driver bound and locked, or expired with no assigned driver and
\* no driver lock, never a mixture.
C4_SweepOrAcceptNeverBoth ==
  \A r \in RideIds :
    ride[r].status = "expired" => (ride[r].assigned = NoDriver /\ LockOn(r) = {})

\* C5 (as stated): once a ride is marked expired, no later accept changes
\* its status to assigned.
C5_ExpiredNeverAssigned ==
  [][\A r \in RideIds : ride[r].status = "expired" => ride'[r].status # "assigned"]_vars

\* C6 (as stated): a ride is assigned only if a driver lock of its assigned
\* driver points at it, and a driver lock points at a ride only if that ride
\* is bound to that driver.
C6_AssignedIffLocked ==
  /\ \A r \in RideIds :
       ride[r].status = "assigned" => dlock[ride[r].assigned].ride = r
  /\ \A d \in Drivers :
       dlock[d].ride # NoRide =>
         (ride[dlock[d].ride].status = "assigned" /\ ride[dlock[d].ride].assigned = d)

\* C9 (as stated): a ride still pending, never accepted, when its expireAt
\* passes has been marked expired by the end of the next complete run of
\* expireRides: between runs, no ride that was owed at the start of the last
\* run is still owed.
C9_DueRideExpiredAfterSweep == wpc = "idle" => wowed = {}

\* C10 (as stated): passenger cancel succeeds only on a pending ride; in any
\* other status the ride is left unchanged. Only passengerCancelScript
\* writes the status cancelled.
C10_PassengerCancelOnlyPending ==
  [][\A r \in RideIds :
       (ride'[r].status = "cancelled" /\ ride[r].status # "cancelled")
         => ride[r].status = "pending"]_vars

(***************************************************************************)
(*                          Claims: Hash                                   *)
(***************************************************************************)
\* C7 (as stated): in every reachable state a ride's assigned driver is
\* non-null if and only if its status is ASSIGNED, STARTED or COMPLETED.
C7_DriverIffAssignedStartedCompleted ==
  \A r \in HashRideIds :
    hride[r].driverId # NoDriver <=>
      hride[r].status \in {RIDE_STATUS.ASSIGNED, RIDE_STATUS.STARTED, RIDE_STATUS.COMPLETED}

\* C11 (as stated): a driver cancel takes effect only on a ride that is
\* ASSIGNED; the ride then returns to REQUESTED with no assigned driver and
\* the driver it was assigned to is released.
C11_DriverCancelReturnsToRequested ==
  [][\A r \in HashRideIds :
       (hride[r].cancelledBy # "driver" /\ hride'[r].cancelledBy = "driver") =>
         /\ hride[r].status = RIDE_STATUS.ASSIGNED
         /\ hride'[r].status = RIDE_STATUS.REQUESTED
         /\ hride'[r].driverId = NoDriver
         /\ hdriver'[hride[r].driverId] = DRIVER_STATUS.AVAILABLE]_vars

\* C21 (as stated): COMPLETED and CANCELLED are absorbing: no accept, cancel
\* or complete changes the status or the assigned driver of a ride that has
\* one of them.  (A step that stores REQUESTED is a creation under the same
\* id, which is not one of these operations.)
TerminalStatuses == {RIDE_STATUS.COMPLETED, RIDE_STATUS.CANCELLED}

C21_TerminalStatusesAreAbsorbing ==
  [][\A r \in HashRideIds :
       (hride[r].status \in TerminalStatuses /\ hride'[r].status # RIDE_STATUS.REQUESTED) =>
         /\ hride'[r].status = hride[r].status
         /\ hride'[r].driverId = hride[r].driverId]_vars

\* C22 (as stated): a ride becomes COMPLETED only from STARTED, and on the
\* request of the driver recorded on it.
C22_CompletedOnlyFromStarted ==
  [][\A r \in HashRideIds :
       (hride[r].status # RIDE_STATUS.COMPLETED /\ hride'[r].status = RIDE_STATUS.COMPLETED) =>
         /\ hride[r].status = RIDE_STATUS.STARTED
         /\ cmdrv' = hride[r].driverId]_vars

\* C23 (as stated): the completion of a ride makes available the driver
\* assigned to that ride and no other driver.
C23_CompletionFreesOnlyItsDriver ==
  [][\A d \in Drivers :
       (hdriver[d] = DRIVER_STATUS.BUSY /\ hdriver'[d] = DRIVER_STATUS.AVAILABLE) =>
         (cmride # NoRide /\ hride[cmride].driverId = d)]_vars

\* C24 (as stated): only a creation brings the record of a ride into
\* existence: a step after which ride:{id} exists, and before which it did
\* not, stores a REQUESTED ride.
C24_OnlyCreateMakesARide ==
  [][\A r \in HashRideIds :
       (hride[r] = NoHash /\ hride'[r] # NoHash) =>
         hride'[r].status = RIDE_STATUS.REQUESTED]_vars

\* C25 (as stated): distinct ride requests get distinct rideIds, so no
\* creation overwrites the record of another ride: the passenger of a
\* stored ride never changes.
C25_CreateNeverOverwritesARide ==
  [][\A r \in HashRideIds :
       hride[r].passengerId # NoPassenger =>
         hride'[r].passengerId = hride[r].passengerId]_vars

(***************************************************************************)
(*                       Claims: Lua, continued                            *)
(***************************************************************************)
\* C12 (as stated): a create request for a rideId whose ride exists leaves
\* the ride as it is: its status, assigned driver and expiry are not reset.
C12_RepeatedCreateChangesNothing ==
  [][\A r \in RideIds :
       (crpc[r] = "idle" /\ crpc'[r] = "expire" /\ ride[r].key) => ride'[r] = ride[r]]_vars

\* C19 (as stated): when a driver's lock passes its expiry while the ride it
\* points at is still assigned to that driver, the ride is returned to
\* pending: it does not stay assigned to a driver whose lock has lapsed.
C19_LapsedLockReturnsRide ==
  [][\A d \in Drivers, r \in RideIds :
       (/\ dlock[d].ride = r /\ dlock'[d].ride = NoRide
        /\ ride[r].status = "assigned" /\ ride[r].assigned = d)
         => ride'[r].status # "assigned"]_vars

\* C20 (as stated): after a successful driver cancel the ride carries a
\* fresh expireAt, later than the time of the cancel.
C20_DriverCancelRefreshesExpireAt ==
  [][\A r \in RideIds :
       (/\ ride[r].status = "assigned" /\ ride'[r].status = "pending"
        /\ crpc'[r] = crpc[r])
         => ride'[r].expireAt > 0]_vars

(***************************************************************************)
(*                       Claims: driver index                              *)
(***************************************************************************)
\* C13 (as stated): after an update moves a driver from cell C1 to another
\* cell C2, membersForCell(C2) returns the driver and membersForCell(C1)
\* does not.
C13_MovedDriverLeavesOldCell ==
  [][\A d \in Drivers :
       (drvHash[d].key /\ drvHash'[d].c9 # drvHash[d].c9) =>
         /\ d \in (buckets'[0]["any"][drvHash'[d].c9] \cup buckets'[1]["any"][drvHash'[d].c9])
         /\ d \notin (buckets'[0]["any"][drvHash[d].c9] \cup buckets'[1]["any"][drvHash[d].c9])]_vars

\* C15 (as stated): an update whose timestamp is older than the stored
\* lastSeen (ls) is rejected, so across any sequence of updates of one
\* driver the stored lastSeen never decreases.
C15_LastSeenNeverDecreases ==
  [][\A d \in Drivers : drvHash[d].key => drvHash'[d].ls >= drvHash[d].ls]_vars

\* C29 (as stated): a search for a car class returns only drivers whose
\* current class (ct of D:{id}) is that class.
C29_SearchReturnsOnlyTheClass ==
  \A lat \in CarLats, car \in Cars, limit \in Limits :
    LET list == riderSearch(lat, car, limit)
    IN \A i \in 1..Len(list) : list[i].ct = car

\* a driver with a position whose last update is in the bucket of this or
\* of the last minute
Live(d) == drvHash[d].key /\ d \in membersForCell(drvHash[d].c9, "any")

\* the ring bound that covers the largest radius
RingBound == Rings(MaxRadius)

\* C30 (as stated): a live driver within the ring bound and the radius of
\* the query point is returned whenever fewer than limit live drivers are
\* as near or nearer.
C30_NearDriverInNextRingIsReturned ==
  \A lat \in ValidLats, limit \in Limits, d \in Drivers :
    (/\ Live(d)
     /\ Abs(drvHash[d].c9 - latLngToCell(lat)) <= RingBound
     /\ Abs(drvHash[d].lt - lat) <= MaxRadius
     /\ Cardinality({e \in Drivers \ {d} :
           Live(e) /\ Abs(drvHash[e].lt - lat) <= Abs(drvHash[d].lt - lat)}) < limit)
      => \E i \in 1..Len(riderSearch(lat, "any", limit)) :
           riderSearch(lat, "any", limit)[i].driverId = d

\* C33 (as stated): of two drivers of the result at the same distance from
\* the query point, the one with the more recent lastSeen (ls of D:{id})
\* comes first.
C33_EqualDistanceFreshestFirst ==
  \A lat \in ValidLats, limit \in Limits :
    LET found == riderSearch(lat, "any", limit)
    IN \A i, j \in 1..Len(found) :
         (i < j /\ found[i].distance = found[j].distance) => found[i].ls >= found[j].ls

(***************************************************************************)
(*                     Claims: driver GEO service                          *)
(***************************************************************************)
DriverIds(results) == {results[i].driverId : i \in 1..Len(results)}

\* C17: searchNearby never returns the same driver id twice, also when the
\* driver is a member of the GEO keys of several cells of the disk.
C17_SearchReturnsNoDuplicates ==
  \A lat \in ValidLats, radius \in Radii, n \in Limits :
    LET found == searchNearby(lat, radius, n)
    IN \A i, j \in 1..Len(found) : found[i].driverId = found[j].driverId => i = j

\* C17 witness: a query whose merged replies hold a driver twice (it is
\* indexed under two cells of the disk) and whose result holds it once.
C17_Witness ==
  \E lat \in ValidLats, radius \in Radii, n \in Limits :
    LET merged == Merged(lat, radius, n)
        found == searchNearby(lat, radius, n)
    IN \E i, j \in 1..Len(merged) :
         /\ i # j
         /\ merged[i].driverId = merged[j].driverId
         /\ Cardinality({k \in 1..Len(found) : found[k].driverId = merged[i].driverId}) = 1

\* the members the replies of the pipeline can name, as <<driver, distance>>:
\* the members of the GEO keys of the disk's cells inside the radius
Members(lat, radius) ==
  {<<d, Abs(geo[c][d] - lat)>> : <<c, d>> \in
     {cd \in Cells \X Drivers :
        /\ Abs(cd[1] - latLngToCell(lat)) <= Rings(radius)
        /\ geo[cd[1]][cd[2]] # NoPos
        /\ Abs(geo[cd[1]][cd[2]] - lat) <= radius}}

\* the deduplicated candidates inside the radius, each at the distance of
\* its nearest member
Candidates(lat, radius) ==
  LET members == Members(lat, radius)
  IN {m \in members : \A o \in members : o[1] = m[1] => m[2] <= o[2]}

Min(a, b) == IF a < b THEN a ELSE b

\* C31: the result of searchNearby is the first N entries of the
\* distance-ascending ordering of the deduplicated candidates inside the
\* radius: it holds min(N, number of candidates) entries, each a candidate at
\* its distance, in order of non-decreasing distance, and no candidate left
\* out is nearer than a returned one.
C31_SearchReturnsTheNearestN ==
  \A lat \in ValidLats, radius \in Radii :
    \A cands \in {Candidates(lat, radius)}, n \in Limits :
      LET found == searchNearby(lat, radius, n)
          returned == {<<found[i].driverId, found[i].distance>> : i \in 1..Len(found)}
      IN /\ Len(found) = Min(n, Cardinality(cands))
         /\ returned \subseteq cands
         /\ \A i \in 1..(Len(found) - 1) : found[i].distance <= found[i + 1].distance
         /\ \A m \in cands \ returned : \A r \in returned : m[2] >= r[2]

\* C31 witness: a query with more candidates than the limit, one of them
\* strictly farther than the driver returned, and the result cut to the limit
C31_Witness ==
  \E lat \in ValidLats, radius \in Radii, n \in Limits :
    LET found == searchNearby(lat, radius, n)
        cands == Candidates(lat, radius)
    IN /\ Cardinality(cands) > n
       /\ Len(found) = n
       /\ \E m \in cands : m[2] > found[Len(found)].distance

\* C14 (as stated): a driver whose last update is older than the freshness
\* window (its driver:lastSeen key has expired) is never returned by a nearby
\* search, whether or not the cleanup job has run since.
C14_StaleDriverNeverReturned ==
  \A lat \in ValidLats, radius \in Radii, n \in Limits :
    LET found == searchNearby(lat, radius, n)
    IN \A i \in 1..Len(found) : lastSeen[found[i].driverId]

\* C16 (as stated): a nearby search never returns a driver whose current
\* position (the member of the GEO key of its current cell) is farther from
\* the query point than the radius.
C16_ReturnedDriversAreWithinRadius ==
  \A lat \in ValidLats, radius \in Radii, n \in Limits :
    LET found == searchNearby(lat, radius, n)
    IN \A i \in 1..Len(found) :
         LET d == found[i].driverId
         IN (driverCell[d] \in Cells /\ geo[driverCell[d]][d] # NoPos) =>
              Abs(geo[driverCell[d]][d] - lat) <= radius

\* a driver heard from within the freshness window (its lastSeen key is
\* there) whose current position, the member of the GEO key of its current
\* cell, is within the rings and the radius of the query
LiveWithin(d, lat, radius) ==
  /\ lastSeen[d]
  /\ driverCell[d] \in Cells
  /\ Abs(driverCell[d] - latLngToCell(lat)) <= Rings(radius)
  /\ geo[driverCell[d]][d] # NoPos
  /\ Abs(geo[driverCell[d]][d] - lat) <= radius

\* C32 (as stated): the search looks at the rings 0..Rings(radius) only and
\* returns the empty list when no live driver lies within the ring bound and
\* the radius.
C32_NoLiveDriverGivesEmptyResult ==
  \A lat \in ValidLats, radius \in Radii, n \in Limits :
    (\A d \in Drivers : ~LiveWithin(d, lat, radius)) => searchNearby(lat, radius, n) = <<>>

\* a removal of the cleanup job for the driver it is handling: ZREM, DEL or SREM
CleanupRemoval(d) ==
  cld = d /\ clpc \in {"zrem", "del", "srem"} /\ clpc' # clpc

\* C34 (as stated): the cleanup job removes nothing of a driver whose
\* lastSeen key is there: not its members of the GEO keys, not its cell key
\* and not its entry of drivers:active, also when updateLocation ran for the
\* driver after the job's EXISTS.
C34_CleanupSparesLiveDrivers ==
  [][\A d \in Drivers :
       (lastSeen[d] /\ CleanupRemoval(d)) =>
         /\ \A c \in Cells : geo'[c][d] = geo[c][d]
         /\ driverCell'[d] = driverCell[d]
         /\ (d \in active => d \in active')]_vars

\* C35 (as stated): when the cleanup job is done with a driver whose
\* lastSeen key had expired, and no update ran during the pass, the driver
\* is a member of no cell's GEO key, has no cell key and is not in
\* drivers:active.
C35_CleanupRemovesExpiredDriverEverywhere ==
  [][(clpc = "srem" /\ clpc' = "loop") =>
       /\ \A c \in Cells : geo'[c][cld] = NoPos
       /\ driverCell'[cld] = NoCell
       /\ cld \notin active']_vars

\* C18 (as stated): a position update with a latitude out of range leaves
\* the driver's keys and every cell's GEO key unchanged.
C18_BadCoordsChangeNothing ==
  [][\A d \in Drivers, lat \in Lats :
       (BadCoords(lat) /\ updateLocation(d, lat)) => UNCHANGED varsGeo]_vars

(***************************************************************************)
(*                       Claims: script runners                            *)
(***************************************************************************)
\* C28 (as stated): when the call is over, the script took effect at most
\* once and at most two commands were sent to run it; a call that succeeded
\* after NOSCRIPT re-registered the script once and ran it a second time;
\* after any other error of the first command nothing more was sent and the
\* caller got the error.
C28_NoscriptRetriedOnceOthersSurfaced ==
  spc = "done" =>
    /\ sran <= 1
    /\ ssent <= 2
    /\ sloads <= 1
    /\ (sfirst = "NOSCRIPT" /\ sres = "ok") => (ssent = 2 /\ sloads = 1)
    /\ sfirst = "error" => (ssent = 1 /\ sres = "error")


(***************************************************************************)
(*                       Claims: Kafka utilities                           *)
(***************************************************************************)
\* no copy of the message waits in the topic and the consumer is between
\* two messages
ChainEnded(m) ==
  /\ \A msg \in ktopic : msg.id # m
  /\ ppc[Consumer] = "idle"

\* C37 (as stated): a consumed message whose handler fails is handled at
\* most RETRY_LIMIT + 1 times; the copy waiting in the topic carries the
\* number of failures so far as its retries header, at most RETRY_LIMIT;
\* a message with a copy in the topic is not in the dead-letter topic; and
\* once no copy is left and the handler never succeeded, the message was
\* handled RETRY_LIMIT + 1 times and is in the dead-letter topic exactly
\* once.
C37_RetriedThenDeadLetteredOnce ==
  \A m \in 1..NumMessages :
    /\ khandled[m] <= RETRY_LIMIT + 1
    /\ kdlq[m] <= 1
    /\ \A msg \in ktopic :
         msg.id = m => /\ msg.retries = khandled[m]
                       /\ msg.retries <= RETRY_LIMIT
                       /\ kdlq[m] = 0
    /\ (ChainEnded(m) /\ ~kok[m]) =>
         /\ khandled[m] = RETRY_LIMIT + 1
         /\ kdlq[m] = 1

\* C38 (as stated): when a publishEvent call whose send was rejected is
\* over, every message of its batch is the value of a key of the offline
\* store.
C38_FailedBatchIsSavedWhole ==
  \A p \in Publishers :
    (ppc[p] = "done" /\ pfail[p]) =>
      \A i \in 1..Len(pbatch[p]) : \E k \in KTopics \X Millis : koff[k] = pbatch[p][i].id

(***************************************************************************)
(*                       Claims: Redis service                             *)
(***************************************************************************)
\* C39 (as stated): whatever the interleaving of the callers, new Redis()
\* ran at most once and duplicate() ran at most once, and the calls of
\* initClient resolved to one instance, as did the calls of initSubscriber.
C39_ClientsAreSingletons ==
  /\ nclient <= 1
  /\ nsub <= 1
  /\ Cardinality(gotClient) <= 1
  /\ Cardinality(gotSub) <= 1
====
